---- MODULE Spec2Model ----
(***************************************************************************)
(* Model of the agro-share scheduling engine (backend/algorithms/scheduler *)
(* as bundled in src/backend/models/index.js) and of the booking           *)
(* controller that drives it (src/unnamed/part_003).                       *)
(*                                                                         *)
(* Units: times are minutes since midnight; distances are tenths of a      *)
(* kilometre (calculateDistance rounds to one decimal place); coordinates  *)
(* are hundredths of a degree.  A time string "HH:MM" is the pair          *)
(* <<HH, MM>>.                                                             *)
(***************************************************************************)
EXTENDS Integers, Sequences, FiniteSets, TLC

(***************************************************************************)
(* Bounds of the model                                                     *)
(***************************************************************************)
MaxJobs == 3

(***************************************************************************)
(* JavaScript values                                                       *)
(***************************************************************************)
\* `undefined` where an object (coordinates) is expected
NoCoords == [undefined |-> TRUE]

\* `undefined` where an array (the job list) is expected.  Sequences are
\* compared element by element, so the value is a sequence holding the one
\* element `undefined`, which no job record equals.
NoBookings == <<[undefined |-> TRUE]>>

\* !bookings || bookings.length === 0
NoJobs(bookings) == IF bookings = NoBookings THEN TRUE ELSE Len(bookings) = 0

\* timeSlots.startTime / endTime before scheduling: null
NullTime == <<>>

\* nearestDistance starts at Infinity; any value above every table distance
Infinity == 1000000

\* x || d on numbers: 0 is falsy
OrDefault(x, d) == IF x = 0 THEN d ELSE x

Coord(lat, lon) == [latitude |-> lat, longitude |-> lon]

\* the machine's home and three fields north of it, on one meridian
P0 == Coord(2860, 7720)
P1 == Coord(2862, 7720)
P2 == Coord(2865, 7720)
P3 == Coord(2878, 7720)
Points == {P0, P1, P2, P3}

(***************************************************************************)
(* DistanceModel                                                           *)
(***************************************************************************)
\* Math.round(R * c * 10) / 10 of the Haversine formula, in tenths of a km,
\* evaluated in IEEE double arithmetic for every ordered pair of Points.
HaversineTable ==
    (<<P0, P0>> :> 0)   @@ (<<P0, P1>> :> 22)  @@ (<<P0, P2>> :> 56)  @@ (<<P0, P3>> :> 200) @@
    (<<P1, P0>> :> 22)  @@ (<<P1, P1>> :> 0)   @@ (<<P1, P2>> :> 33)  @@ (<<P1, P3>> :> 178) @@
    (<<P2, P0>> :> 56)  @@ (<<P2, P1>> :> 33)  @@ (<<P2, P2>> :> 0)   @@ (<<P2, P3>> :> 145) @@
    (<<P3, P0>> :> 200) @@ (<<P3, P1>> :> 178) @@ (<<P3, P2>> :> 145) @@ (<<P3, P3>> :> 0)

\* !coord?.latitude || !coord?.longitude
MissingLatLon(coord) ==
    \/ coord = NoCoords
    \/ coord.latitude = 0
    \/ coord.longitude = 0

\* Variant of calculateDistance: only the first argument is tested.
calculateDistanceOneSided(coord1, coord2) ==
    IF MissingLatLon(coord1)
    THEN 0
    ELSE IF MissingLatLon(coord2)
    THEN Infinity
    ELSE HaversineTable[<<coord1, coord2>>]

calculateDistance(coord1, coord2) ==
    IF MissingLatLon(coord1) \/ MissingLatLon(coord2)
    THEN 0
    ELSE HaversineTable[<<coord1, coord2>>]

\* Math.ceil((distanceKm / 30) * 60); with the distance in tenths of a km
\* this is ceil(d / 5).  (On the table's distances the double computation
\* and the exact one agree.)
averageSpeedKmH == 30

calculateTravelTime(distance) ==
    (distance * 60 + (averageSpeedKmH * 10 - 1)) \div (averageSpeedKmH * 10)

(***************************************************************************)
(* Time strings                                                            *)
(***************************************************************************)
formatTime(minutes) == <<minutes \div 60, minutes % 60>>

parseTime(timeStr) == timeStr[1] * 60 + timeStr[2]

Max(a, b) == IF a > b THEN a ELSE b

\* an own property that has not been set on an object
Absent == -1

(***************************************************************************)
(* RouteSequencer: sortByLocation                                          *)
(***************************************************************************)
\* remaining.splice(index, 1)
RemoveAt(seq, index) ==
    [k \in 1..(Len(seq) - 1) |-> IF k < index THEN seq[k] ELSE seq[k + 1]]

\* Variant of NearestScan: among equally distant jobs the one seen last is kept.
RECURSIVE NearestScanLastTie(_, _, _, _, _)
NearestScanLastTie(remaining, currentLocation, index, nearestIndex, nearestDistance) ==
    IF index > Len(remaining)
    THEN [nearestIndex |-> nearestIndex, nearestDistance |-> nearestDistance]
    ELSE LET booking == remaining[index]
             bookingCoords == booking.fieldLocation.coordinates
         IN IF currentLocation = NoCoords
               \/ bookingCoords = NoCoords
               \/ bookingCoords.latitude = 0
            THEN LET priorityScore == OrDefault(booking.priority, 1)
                 IN IF priorityScore > OrDefault(remaining[nearestIndex].priority, 1)
                    THEN NearestScanLastTie(remaining, currentLocation, index + 1,
                                     index, nearestDistance)
                    ELSE NearestScanLastTie(remaining, currentLocation, index + 1,
                                     nearestIndex, nearestDistance)
            ELSE LET distance == calculateDistance(currentLocation, bookingCoords)
                 IN IF distance <= nearestDistance
                    THEN NearestScanLastTie(remaining, currentLocation, index + 1,
                                     index, distance)
                    ELSE NearestScanLastTie(remaining, currentLocation, index + 1,
                                     nearestIndex, nearestDistance)

\* Variant of NearestScan: a job of equal priority replaces the current pick.
RECURSIVE NearestScanLastSeen(_, _, _, _, _)
NearestScanLastSeen(remaining, currentLocation, index, nearestIndex, nearestDistance) ==
    IF index > Len(remaining)
    THEN [nearestIndex |-> nearestIndex, nearestDistance |-> nearestDistance]
    ELSE LET booking == remaining[index]
             bookingCoords == booking.fieldLocation.coordinates
         IN IF currentLocation = NoCoords
               \/ bookingCoords = NoCoords
               \/ bookingCoords.latitude = 0
            THEN LET priorityScore == OrDefault(booking.priority, 1)
                 IN IF priorityScore >= OrDefault(remaining[nearestIndex].priority, 1)
                    THEN NearestScanLastSeen(remaining, currentLocation, index + 1,
                                     index, nearestDistance)
                    ELSE NearestScanLastSeen(remaining, currentLocation, index + 1,
                                     nearestIndex, nearestDistance)
            ELSE LET distance == calculateDistance(currentLocation, bookingCoords)
                 IN IF distance < nearestDistance
                    THEN NearestScanLastSeen(remaining, currentLocation, index + 1,
                                     index, distance)
                    ELSE NearestScanLastSeen(remaining, currentLocation, index + 1,
                                     nearestIndex, nearestDistance)

\* The remaining.forEach(...) scan of one while-iteration; index,
\* nearestIndex are 1-based here.
RECURSIVE NearestScan(_, _, _, _, _)
NearestScan(remaining, currentLocation, index, nearestIndex, nearestDistance) ==
    IF index > Len(remaining)
    THEN [nearestIndex |-> nearestIndex, nearestDistance |-> nearestDistance]
    ELSE LET booking == remaining[index]
             bookingCoords == booking.fieldLocation.coordinates
         IN IF currentLocation = NoCoords
               \/ bookingCoords = NoCoords
               \/ bookingCoords.latitude = 0
            THEN \* no coordinates: use priority as fallback
                 LET priorityScore == OrDefault(booking.priority, 1)
                 IN IF priorityScore > OrDefault(remaining[nearestIndex].priority, 1)
                    THEN NearestScan(remaining, currentLocation, index + 1,
                                     index, nearestDistance)
                    ELSE NearestScan(remaining, currentLocation, index + 1,
                                     nearestIndex, nearestDistance)
            ELSE LET distance == calculateDistance(currentLocation, bookingCoords)
                 IN IF distance < nearestDistance
                    THEN NearestScan(remaining, currentLocation, index + 1,
                                     index, distance)
                    ELSE NearestScan(remaining, currentLocation, index + 1,
                                     nearestIndex, nearestDistance)

\* The while (remaining.length > 0) loop.
RECURSIVE NearestNeighbour(_, _, _)
NearestNeighbour(sorted, remaining, currentLocation) ==
    IF Len(remaining) = 0
    THEN sorted
    ELSE LET scan == NearestScan(remaining, currentLocation, 1, 1, Infinity)
             nearestBooking ==
                 [remaining[scan.nearestIndex] EXCEPT
                     !._calculatedDistance =
                         IF scan.nearestDistance = Infinity
                         THEN 0 ELSE scan.nearestDistance]
             coords == nearestBooking.fieldLocation.coordinates
         IN NearestNeighbour(Append(sorted, nearestBooking),
                             RemoveAt(remaining, scan.nearestIndex),
                             IF coords # NoCoords THEN coords ELSE currentLocation)

\* Variant of sortByLocation: a group whose jobs all carry a distance from an
\* earlier call is taken to be sequenced already.
sortByLocationCached(bookings, startLocation) ==
    IF Len(bookings) <= 1
       \/ \A k \in 1..Len(bookings) : bookings[k]._calculatedDistance # Absent
    THEN bookings
    ELSE NearestNeighbour(<<>>, bookings, startLocation)

sortByLocation(bookings, startLocation) ==
    IF Len(bookings) <= 1
    THEN bookings
    ELSE NearestNeighbour(<<>>, bookings, startLocation)

(***************************************************************************)
(* scheduleJobs                                                            *)
(***************************************************************************)
\* machine?.availability?.workingHoursStart || 8, in minutes
workingHoursStart(machine) == OrDefault(machine.availability.workingHoursStart, 8) * 60

\* machine?.availability?.workingHoursEnd || 18, in minutes
workingHoursEnd(machine) == OrDefault(machine.availability.workingHoursEnd, 18) * 60

urgentBookings(bookings) == SelectSeq(bookings, LAMBDA b : b.priority = 3)

highPriorityBookings(bookings) == SelectSeq(bookings, LAMBDA b : b.priority = 2)

normalBookings(bookings) == SelectSeq(bookings, LAMBDA b : OrDefault(b.priority, 1) = 1)

\* Step 1: the group of one priority
GroupOf(bookings, priority) ==
    IF priority = 3 THEN urgentBookings(bookings)
    ELSE IF priority = 2 THEN highPriorityBookings(bookings)
    ELSE normalBookings(bookings)

\* Variant of sortedBookingsOf: one nearest-neighbour tour over all jobs,
\* without the partition by priority.
sortedBookingsOfOneTour(bookings, machine) ==
    LET machineLocation == machine.location.coordinates
    IN sortByLocation(bookings, machineLocation)

\* Steps 1-3: partition by priority, sort each group, combine.
sortedBookingsOf(bookings, machine) ==
    LET machineLocation == machine.location.coordinates
    IN sortByLocation(urgentBookings(bookings), machineLocation)
       \o sortByLocation(highPriorityBookings(bookings), machineLocation)
       \o sortByLocation(normalBookings(bookings), machineLocation)

\* Variant of AssignIteration: the clock is set to the job's start, not its end.
AssignIterationClockAtStart(st, booking, endTime) ==
    LET bookingCoords == booking.fieldLocation.coordinates
        distanceFromPrevious ==
            IF st.previousLocation # NoCoords /\ bookingCoords # NoCoords
            THEN calculateDistance(st.previousLocation, bookingCoords)
            ELSE 0
        travelTime == calculateTravelTime(distanceFromPrevious)
        bufferTime == Max(15, travelTime)
        jobStartTime == st.currentTime + (IF st.slotOrder > 1 THEN bufferTime ELSE 0)
        jobDuration == OrDefault(booking.estimatedDuration, 60)
        jobEndTime == jobStartTime + jobDuration
    IN IF jobEndTime > endTime
       THEN st
       ELSE [currentTime |-> jobStartTime,
             previousLocation |->
                 IF bookingCoords # NoCoords THEN bookingCoords
                 ELSE st.previousLocation,
             slotOrder |-> st.slotOrder + 1,
             scheduledSlots |-> Append(st.scheduledSlots,
                 [bookingId |-> booking._id,
                  startTime |-> formatTime(jobStartTime),
                  endTime |-> formatTime(jobEndTime),
                  order |-> st.slotOrder,
                  duration |-> jobDuration,
                  distanceFromPrevious |-> distanceFromPrevious,
                  travelTime |-> bufferTime])]

\* Variant of AssignIteration: a rejected job still moves the clock by its travel buffer.
AssignIterationRejectAdvances(st, booking, endTime) ==
    LET bookingCoords == booking.fieldLocation.coordinates
        distanceFromPrevious ==
            IF st.previousLocation # NoCoords /\ bookingCoords # NoCoords
            THEN calculateDistance(st.previousLocation, bookingCoords)
            ELSE 0
        travelTime == calculateTravelTime(distanceFromPrevious)
        bufferTime == Max(15, travelTime)
        jobStartTime == st.currentTime + (IF st.slotOrder > 1 THEN bufferTime ELSE 0)
        jobDuration == OrDefault(booking.estimatedDuration, 60)
        jobEndTime == jobStartTime + jobDuration
    IN IF jobEndTime > endTime
       THEN [st EXCEPT !.currentTime = st.currentTime + bufferTime]
       ELSE [currentTime |-> jobEndTime,
             previousLocation |->
                 IF bookingCoords # NoCoords THEN bookingCoords
                 ELSE st.previousLocation,
             slotOrder |-> st.slotOrder + 1,
             scheduledSlots |-> Append(st.scheduledSlots,
                 [bookingId |-> booking._id,
                  startTime |-> formatTime(jobStartTime),
                  endTime |-> formatTime(jobEndTime),
                  order |-> st.slotOrder,
                  duration |-> jobDuration,
                  distanceFromPrevious |-> distanceFromPrevious,
                  travelTime |-> bufferTime])]

\* Variant of AssignIteration: the buffer is the bare travel time, without the 15 minute floor.
AssignIterationNoFloor(st, booking, endTime) ==
    LET bookingCoords == booking.fieldLocation.coordinates
        distanceFromPrevious ==
            IF st.previousLocation # NoCoords /\ bookingCoords # NoCoords
            THEN calculateDistance(st.previousLocation, bookingCoords)
            ELSE 0
        travelTime == calculateTravelTime(distanceFromPrevious)
        bufferTime == travelTime
        jobStartTime == st.currentTime + (IF st.slotOrder > 1 THEN bufferTime ELSE 0)
        jobDuration == OrDefault(booking.estimatedDuration, 60)
        jobEndTime == jobStartTime + jobDuration
    IN IF jobEndTime > endTime
       THEN st
       ELSE [currentTime |-> jobEndTime,
             previousLocation |->
                 IF bookingCoords # NoCoords THEN bookingCoords
                 ELSE st.previousLocation,
             slotOrder |-> st.slotOrder + 1,
             scheduledSlots |-> Append(st.scheduledSlots,
                 [bookingId |-> booking._id,
                  startTime |-> formatTime(jobStartTime),
                  endTime |-> formatTime(jobEndTime),
                  order |-> st.slotOrder,
                  duration |-> jobDuration,
                  distanceFromPrevious |-> distanceFromPrevious,
                  travelTime |-> bufferTime])]

\* Variant of AssignIteration: a rejected job with coordinates becomes the previous location.
AssignIterationRejectMovesLocation(st, booking, endTime) ==
    LET bookingCoords == booking.fieldLocation.coordinates
        distanceFromPrevious ==
            IF st.previousLocation # NoCoords /\ bookingCoords # NoCoords
            THEN calculateDistance(st.previousLocation, bookingCoords)
            ELSE 0
        travelTime == calculateTravelTime(distanceFromPrevious)
        bufferTime == Max(15, travelTime)
        jobStartTime == st.currentTime + (IF st.slotOrder > 1 THEN bufferTime ELSE 0)
        jobDuration == OrDefault(booking.estimatedDuration, 60)
        jobEndTime == jobStartTime + jobDuration
    IN IF jobEndTime > endTime
       THEN [st EXCEPT !.previousLocation =
                IF bookingCoords # NoCoords THEN bookingCoords
                ELSE st.previousLocation]
       ELSE [currentTime |-> jobEndTime,
             previousLocation |->
                 IF bookingCoords # NoCoords THEN bookingCoords
                 ELSE st.previousLocation,
             slotOrder |-> st.slotOrder + 1,
             scheduledSlots |-> Append(st.scheduledSlots,
                 [bookingId |-> booking._id,
                  startTime |-> formatTime(jobStartTime),
                  endTime |-> formatTime(jobEndTime),
                  order |-> st.slotOrder,
                  duration |-> jobDuration,
                  distanceFromPrevious |-> distanceFromPrevious,
                  travelTime |-> bufferTime])]

\* The body of one "for (const booking of sortedBookings)" iteration.
\* st = [currentTime, previousLocation, slotOrder, scheduledSlots]
AssignIteration(st, booking, endTime) ==
    LET bookingCoords == booking.fieldLocation.coordinates
        distanceFromPrevious ==
            IF st.previousLocation # NoCoords /\ bookingCoords # NoCoords
            THEN calculateDistance(st.previousLocation, bookingCoords)
            ELSE 0
        travelTime == calculateTravelTime(distanceFromPrevious)
        bufferTime == Max(15, travelTime)
        jobStartTime == st.currentTime + (IF st.slotOrder > 1 THEN bufferTime ELSE 0)
        jobDuration == OrDefault(booking.estimatedDuration, 60)
        jobEndTime == jobStartTime + jobDuration
    IN IF jobEndTime > endTime
       THEN st
       ELSE [currentTime |-> jobEndTime,
             previousLocation |->
                 IF bookingCoords # NoCoords THEN bookingCoords
                 ELSE st.previousLocation,
             slotOrder |-> st.slotOrder + 1,
             scheduledSlots |-> Append(st.scheduledSlots,
                 [bookingId |-> booking._id,
                  startTime |-> formatTime(jobStartTime),
                  endTime |-> formatTime(jobEndTime),
                  order |-> st.slotOrder,
                  duration |-> jobDuration,
                  distanceFromPrevious |-> distanceFromPrevious,
                  travelTime |-> bufferTime])]

\* Variant of AssignStart: the order counter starts at 0.
AssignStartOrderZero(machine) ==
    [currentTime |-> workingHoursStart(machine),
     previousLocation |-> machine.location.coordinates,
     slotOrder |-> 0,
     scheduledSlots |-> <<>>]

\* The state of the assignment loop before its first iteration.
AssignStart(machine) ==
    [currentTime |-> workingHoursStart(machine),
     previousLocation |-> machine.location.coordinates,
     slotOrder |-> 1,
     scheduledSlots |-> <<>>]

RECURSIVE AssignLoop(_, _, _, _)
AssignLoop(st, sortedBookings, k, endTime) ==
    IF k > Len(sortedBookings)
    THEN st
    ELSE AssignLoop(AssignIteration(st, sortedBookings[k], endTime),
                    sortedBookings, k + 1, endTime)

\* The value returned by scheduleJobs(bookings, machine).
scheduleJobs(bookings, machine) ==
    IF NoJobs(bookings)
    THEN <<>>
    ELSE AssignLoop(AssignStart(machine), sortedBookingsOf(bookings, machine),
                    1, workingHoursEnd(machine)).scheduledSlots

\* The objects of the input array after the call: the array itself is never
\* written, but sortByLocation writes _calculatedDistance on the objects it
\* shares with it.
bookingsAfter(bookings, machine) ==
    IF NoJobs(bookings)
    THEN bookings
    ELSE LET sorted == sortedBookingsOf(bookings, machine)
         IN [k \in 1..Len(bookings) |->
                IF \E j \in 1..Len(sorted) : sorted[j]._id = bookings[k]._id
                THEN LET j == CHOOSE j \in 1..Len(sorted) :
                                  sorted[j]._id = bookings[k]._id
                     IN sorted[j]
                ELSE bookings[k]]

(***************************************************************************)
(* calculateUtilization                                                    *)
(***************************************************************************)
\* The text `${n}%` for an integer n, and the texts "NaN%" and "Infinity%".
Percent(n) == [percent |-> n]

NaNPercent == [NaN |-> TRUE]

InfinityPercent == [Infinity |-> TRUE]

\* Math.round(n / d) for d # 0: the nearest integer, halves towards +Infinity
RoundHalfUp(n, d) ==
    IF d > 0
    THEN (2 * n + d) \div (2 * d)
    ELSE (-(2 * n) - d) \div (-(2 * d))

\* Variant of RoundedPercent: the percentage is capped at 100.
RoundedPercentClamped(num, den) ==
    IF den = 0
    THEN IF num = 0 THEN NaNPercent ELSE InfinityPercent
    ELSE Percent(IF RoundHalfUp(100 * num, den) > 100
                 THEN 100 ELSE RoundHalfUp(100 * num, den))

\* `${Math.round((num / den) * 100)}%` for num >= 0: 0 / 0 is NaN and
\* num / 0 is Infinity, which Math.round returns as they are.  (On the
\* inputs below the double computation and the exact one agree.)
RoundedPercent(num, den) ==
    IF den = 0
    THEN IF num = 0 THEN NaNPercent ELSE InfinityPercent
    ELSE Percent(RoundHalfUp(100 * num, den))

RECURSIVE SumOf(_, _, _)
\* bookings.forEach(booking => { total += booking[field] || 0 }), from index k
SumOf(bookings, field, k) ==
    IF k > Len(bookings)
    THEN 0
    ELSE OrDefault(bookings[k][field], 0) + SumOf(bookings, field, k + 1)

calculateUtilization(bookings, machine) ==
    LET start == OrDefault(machine.availability.workingHoursStart, 8)
        end == OrDefault(machine.availability.workingHoursEnd, 18)
        totalWorkingMinutes == (end - start) * 60
        totalBookedMinutes == SumOf(bookings, "estimatedDuration", 1)
        totalAcres == SumOf(bookings, "acres", 1)
        acresCapacity == OrDefault(machine.dailyCapacityAcres, 10)
    IN [totalWorkingMinutes |-> totalWorkingMinutes,
        bookedMinutes |-> totalBookedMinutes,
        availableMinutes |-> totalWorkingMinutes - totalBookedMinutes,
        timeUtilization |-> RoundedPercent(totalBookedMinutes, totalWorkingMinutes),
        totalAcres |-> totalAcres,
        acresCapacity |-> acresCapacity,
        acresUtilization |-> RoundedPercent(totalAcres, acresCapacity),
        bookingCount |-> Len(bookings)]

(***************************************************************************)
(* isSlotAvailable                                                         *)
(***************************************************************************)
\* the for-of loop returns false at the first slot that overlaps the
\* proposed one, and true after the last slot
isSlotAvailable(existingSlots, startTime, endTime) ==
    LET proposedStart == parseTime(startTime)
        proposedEnd == parseTime(endTime)
    IN \A k \in 1..Len(existingSlots) :
          LET slotStart == parseTime(existingSlots[k].startTime)
              slotEnd == parseTime(existingSlots[k].endTime)
          IN ~(proposedStart < slotEnd /\ proposedEnd > slotStart)

(***************************************************************************)
(* getAvailableSlots                                                       *)
(***************************************************************************)
\* existingBookings.filter(b => b.timeSlots?.startTime)
WithStartTime(existingBookings) ==
    SelectSeq(existingBookings, LAMBDA b : b.timeSlots.startTime # NullTime)

\* One insertion of the stable sort: b goes behind every element that does
\* not start later than b.
InsertByStart(ordered, b) ==
    LET k == Cardinality({ i \in 1..Len(ordered) :
                 parseTime(ordered[i].timeSlots.startTime)
                     <= parseTime(b.timeSlots.startTime) })
    IN SubSeq(ordered, 1, k) \o <<b>> \o SubSeq(ordered, k + 1, Len(ordered))

RECURSIVE SortByStart(_, _)
\* .sort((a, b) => parseTime(a.timeSlots.startTime) - parseTime(b.timeSlots.startTime)),
\* a stable sort, of the first k elements
SortByStart(list, k) ==
    IF k = 0
    THEN <<>>
    ELSE InsertByStart(SortByStart(list, k - 1), list[k])

RECURSIVE GapLoop(_, _, _, _, _)
\* for (const booking of sortedBookings), from index k
GapLoop(sortedBookings, k, currentTime, requiredDuration, availableSlots) ==
    IF k > Len(sortedBookings)
    THEN [currentTime |-> currentTime, availableSlots |-> availableSlots]
    ELSE LET booking == sortedBookings[k]
             bookingStart == parseTime(booking.timeSlots.startTime)
             gapDuration == bookingStart - currentTime
         IN GapLoop(sortedBookings, k + 1,
                    parseTime(booking.timeSlots.endTime), requiredDuration,
                    IF gapDuration >= requiredDuration
                    THEN Append(availableSlots,
                            [startTime |-> formatTime(currentTime),
                             endTime |-> formatTime(currentTime + requiredDuration),
                             gapDuration |-> gapDuration])
                    ELSE availableSlots)

\* Variant of getAvailableSlots: the time after the last booking is not looked at.
getAvailableSlotsNoTail(existingBookings, machine, requiredDuration) ==
    LET withStart == WithStartTime(existingBookings)
        sortedBookings == SortByStart(withStart, Len(withStart))
        loop == GapLoop(sortedBookings, 1, workingHoursStart(machine),
                        requiredDuration, <<>>)
    IN loop.availableSlots

getAvailableSlots(existingBookings, machine, requiredDuration) ==
    LET withStart == WithStartTime(existingBookings)
        sortedBookings == SortByStart(withStart, Len(withStart))
        loop == GapLoop(sortedBookings, 1, workingHoursStart(machine),
                        requiredDuration, <<>>)
        remainingTime == workingHoursEnd(machine) - loop.currentTime
    IN IF remainingTime >= requiredDuration
       THEN Append(loop.availableSlots,
               [startTime |-> formatTime(loop.currentTime),
                endTime |-> formatTime(loop.currentTime + requiredDuration),
                gapDuration |-> remainingTime])
       ELSE loop.availableSlots

\* Variant of existingBookingsAfter: the sort reorders the array passed in.
existingBookingsSortedInPlace(existingBookings) ==
    LET withStart == WithStartTime(existingBookings)
    IN SortByStart(withStart, Len(withStart))
       \o SelectSeq(existingBookings, LAMBDA b : b.timeSlots.startTime = NullTime)

\* The array passed in, after the call: filter() returns a new array, and it
\* is that array which sort() reorders; the bookings are only read.
existingBookingsAfter(existingBookings) ==
    existingBookings

(***************************************************************************)
(* State                                                                   *)
(***************************************************************************)
VARIABLES
    \* one call scheduleJobs(bookings, machine)
    bookings,           \* the input array (its objects are shared with the call)
    machine,            \* the asset profile
    pc,                 \* position of the call: "call", "assign", "done"
    sortedBookings,     \* urgent ++ high ++ normal, each sorted by location
    loopIndex,          \* 1-based position of the for-of loop in sortedBookings
    currentTime,        \* running clock
    previousLocation,   \* location of the last accepted job
    slotOrder,          \* order counter
    scheduledSlots,     \* slots emitted so far
    returned,           \* the returned array
    \* the booking service
    db,                 \* the bookings collection, in insertion order
    runs,               \* the scheduleBookings requests in flight
    \* one sortByLocation call inside scheduleJobs
    tier,               \* the priority of the group being sorted: 3, 2, 1
    sorted,             \* the jobs sequenced so far
    remaining,          \* the jobs not yet sequenced
    currentLocation,    \* where the tour stands
    \* one call of a query function of the scheduler
    call,               \* the function and its arguments
    result              \* the value it returned

jobVars == <<bookings, machine, pc, sortedBookings, loopIndex, currentTime,
             previousLocation, slotOrder, scheduledSlots, returned>>

sortVars == <<tier, sorted, remaining, currentLocation>>

callVars == <<call, result>>

vars == <<jobVars, db, runs, sortVars, callVars>>

(***************************************************************************)
(* Inputs of scheduleJobs                                                  *)
(***************************************************************************)
JobPriorities == {1, 2, 3}

JobDurations == {15, 90}

JobCoords == {NoCoords, P1, P3}

MachineStartHours == {0, 9}

MachineEndHours == {0, 10}

MachineHomes == {NoCoords, P0}

Job(id, priority, duration, coords) ==
    [_id |-> id,
     priority |-> priority,
     estimatedDuration |-> duration,
     fieldLocation |-> [coordinates |-> coords],
     _calculatedDistance |-> Absent]

MachineProfiles ==
    { [availability |-> [workingHoursStart |-> s, workingHoursEnd |-> e],
       location |-> [coordinates |-> h]] :
        s \in MachineStartHours, e \in MachineEndHours, h \in MachineHomes }

(***************************************************************************)
(* scheduleJobs, step by step                                              *)
(***************************************************************************)
InitJobs ==
    /\ \/ bookings = NoBookings
       \/ \E n \in 0..MaxJobs :
            \E p \in [1..n -> JobPriorities],
               d \in [1..n -> JobDurations],
               c \in [1..n -> JobCoords] :
                bookings = [k \in 1..n |-> Job(k, p[k], d[k], c[k])]
    /\ machine \in MachineProfiles
    /\ pc = "call"
    /\ sortedBookings = <<>>
    /\ loopIndex = 1
    /\ currentTime = 0
    /\ previousLocation = NoCoords
    /\ slotOrder = 1
    /\ scheduledSlots = <<>>
    /\ returned = <<>>
    /\ db = <<>>
    /\ runs = <<>>
    /\ tier = 0
    /\ sorted = <<>>
    /\ remaining = <<>>
    /\ currentLocation = NoCoords
    /\ call = [fn |-> "none"]
    /\ result = <<>>

\* if (!bookings || bookings.length === 0) return [];
ReturnEmpty ==
    /\ pc = "call"
    /\ NoJobs(bookings)
    /\ pc' = "done"
    /\ returned' = <<>>
    /\ UNCHANGED <<bookings, machine, sortedBookings, loopIndex, currentTime,
                   previousLocation, slotOrder, scheduledSlots, db, runs,
                   sortVars, callVars>>

\* working hours, steps 1-3 and the initialisation of step 4
PartitionAndSort ==
    /\ pc = "call"
    /\ ~NoJobs(bookings)
    /\ sortedBookings' = sortedBookingsOf(bookings, machine)
    /\ bookings' = bookingsAfter(bookings, machine)
    /\ currentTime' = AssignStart(machine).currentTime
    /\ previousLocation' = AssignStart(machine).previousLocation
    /\ slotOrder' = AssignStart(machine).slotOrder
    /\ scheduledSlots' = AssignStart(machine).scheduledSlots
    /\ loopIndex' = 1
    /\ pc' = "assign"
    /\ UNCHANGED <<machine, returned, db, runs,
                   sortVars, callVars>>

LoopState ==
    [currentTime |-> currentTime,
     previousLocation |-> previousLocation,
     slotOrder |-> slotOrder,
     scheduledSlots |-> scheduledSlots]

\* Variant of Assign: after a rejected job the loop looks at the same job again.
AssignRetriesRejected ==
    /\ pc = "assign"
    /\ loopIndex <= Len(sortedBookings)
    /\ LET st == AssignIteration(LoopState, sortedBookings[loopIndex],
                                 workingHoursEnd(machine))
       IN /\ currentTime' = st.currentTime
          /\ previousLocation' = st.previousLocation
          /\ slotOrder' = st.slotOrder
          /\ scheduledSlots' = st.scheduledSlots
          /\ loopIndex' = IF st = LoopState THEN loopIndex ELSE loopIndex + 1
    /\ UNCHANGED <<bookings, machine, pc, sortedBookings, returned, db, runs,
                   sortVars, callVars>>

\* one iteration of the for-of loop
Assign ==
    /\ pc = "assign"
    /\ loopIndex <= Len(sortedBookings)
    /\ LET st == AssignIteration(LoopState, sortedBookings[loopIndex],
                                 workingHoursEnd(machine))
       IN /\ currentTime' = st.currentTime
          /\ previousLocation' = st.previousLocation
          /\ slotOrder' = st.slotOrder
          /\ scheduledSlots' = st.scheduledSlots
    /\ loopIndex' = loopIndex + 1
    /\ UNCHANGED <<bookings, machine, pc, sortedBookings, returned, db, runs,
                   sortVars, callVars>>

\* return scheduledSlots;
Return ==
    /\ pc = "assign"
    /\ loopIndex > Len(sortedBookings)
    /\ returned' = scheduledSlots
    /\ pc' = "done"
    /\ UNCHANGED <<bookings, machine, sortedBookings, loopIndex, currentTime,
                   previousLocation, slotOrder, scheduledSlots, db, runs,
                   sortVars, callVars>>

NextJobs == ReturnEmpty \/ PartitionAndSort \/ Assign \/ Return

SpecJobs == InitJobs /\ [][NextJobs]_vars

(***************************************************************************)
(* scheduleJobs with sortByLocation stepped through its while loop.  The   *)
(* call is synchronous code on one thread: once entered it keeps running.  *)
(***************************************************************************)
\* every job takes 15 minutes; the window 09:00-10:00 has room for two of
\* them at one place
LiveJobDurations == {15}

\* a priority that is a number but none of 1, 2, 3 (the schema's Number with
\* min 1 and max 3 admits 2.5; the filters of Step 1 test with ===, so every
\* such number behaves alike and a whole number stands for them)
OtherPriority == 4

LiveJobPriorities == JobPriorities \cup {OtherPriority}

LiveMachineProfiles ==
    { [availability |-> [workingHoursStart |-> 9, workingHoursEnd |-> 10],
       location |-> [coordinates |-> h]] : h \in MachineHomes }

InitJobsLive ==
    /\ \/ bookings = NoBookings
       \/ \E n \in 0..MaxJobs :
            \E p \in [1..n -> LiveJobPriorities],
               d \in [1..n -> LiveJobDurations],
               c \in [1..n -> JobCoords] :
                bookings = [k \in 1..n |-> Job(k, p[k], d[k], c[k])]
    /\ machine \in LiveMachineProfiles
    /\ pc = "call"
    /\ sortedBookings = <<>>
    /\ loopIndex = 1
    /\ currentTime = 0
    /\ previousLocation = NoCoords
    /\ slotOrder = 1
    /\ scheduledSlots = <<>>
    /\ returned = <<>>
    /\ db = <<>>
    /\ runs = <<>>
    /\ tier = 0
    /\ sorted = <<>>
    /\ remaining = <<>>
    /\ currentLocation = NoCoords
    /\ call = [fn |-> "none"]
    /\ result = <<>>

\* working hours, Step 1 and the call sortByLocation(urgentBookings, machineLocation)
StartSorting ==
    /\ pc = "call"
    /\ ~NoJobs(bookings)
    /\ pc' = "sort"
    /\ tier' = 3
    /\ sorted' = <<>>
    /\ remaining' = GroupOf(bookings, 3)
    /\ currentLocation' = machine.location.coordinates
    /\ UNCHANGED <<bookings, machine, sortedBookings, loopIndex, currentTime,
                   previousLocation, slotOrder, scheduledSlots, returned,
                   db, runs, callVars>>

\* one iteration of while (remaining.length > 0)
SortIteration ==
    /\ pc = "sort"
    /\ Len(GroupOf(bookings, tier)) > 1
    /\ Len(remaining) > 0
    /\ LET scan == NearestScan(remaining, currentLocation, 1, 1, Infinity)
           nearestBooking ==
               [remaining[scan.nearestIndex] EXCEPT
                   !._calculatedDistance =
                       IF scan.nearestDistance = Infinity
                       THEN 0 ELSE scan.nearestDistance]
           coords == nearestBooking.fieldLocation.coordinates
       IN /\ remaining' = RemoveAt(remaining, scan.nearestIndex)
          /\ sorted' = Append(sorted, nearestBooking)
          /\ currentLocation' = IF coords # NoCoords THEN coords
                                ELSE currentLocation
          /\ bookings' = [bookings EXCEPT ![nearestBooking._id] = nearestBooking]
    /\ UNCHANGED <<machine, pc, sortedBookings, loopIndex, currentTime,
                   previousLocation, slotOrder, scheduledSlots, returned,
                   tier, db, runs, callVars>>

\* sortByLocation returns; the next group is sorted, or Step 3 and the
\* initialisation of Step 4 follow
SortReturn ==
    /\ pc = "sort"
    /\ IF Len(GroupOf(bookings, tier)) <= 1 THEN TRUE ELSE Len(remaining) = 0
    /\ sortedBookings' = sortedBookings \o
            (IF Len(GroupOf(bookings, tier)) <= 1
             THEN GroupOf(bookings, tier) ELSE sorted)
    /\ IF tier > 1
       THEN /\ pc' = "sort"
            /\ tier' = tier - 1
            /\ sorted' = <<>>
            /\ remaining' = GroupOf(bookings, tier - 1)
            /\ currentLocation' = machine.location.coordinates
            /\ UNCHANGED <<loopIndex, currentTime, previousLocation, slotOrder,
                           scheduledSlots>>
       ELSE /\ pc' = "assign"
            /\ currentTime' = AssignStart(machine).currentTime
            /\ previousLocation' = AssignStart(machine).previousLocation
            /\ slotOrder' = AssignStart(machine).slotOrder
            /\ scheduledSlots' = AssignStart(machine).scheduledSlots
            /\ loopIndex' = 1
            /\ UNCHANGED sortVars
    /\ UNCHANGED <<bookings, machine, returned, db, runs, callVars>>

NextJobsLive ==
    ReturnEmpty \/ StartSorting \/ SortIteration \/ SortReturn \/ Assign \/ Return

SpecJobsLive == InitJobsLive /\ [][NextJobsLive]_vars /\ WF_vars(NextJobsLive)

(***************************************************************************)
(* One call sortByLocation(bookings, startLocation), as made by            *)
(* calculateOptimalRoute and by callers of the exported function: the jobs *)
(* may be of any priority.  bookings is the argument array, call holds the *)
(* start location, result the returned array.                              *)
(***************************************************************************)
MaxSortJobs == 3

\* 0 stands for a job without a priority
SortPriorities == {0, 1, 2, 3}

SortCoords == {NoCoords, P1, P2, P3}

StartLocations == {NoCoords, P0}

InitSort ==
    /\ \E n \in 0..MaxSortJobs :
         \E p \in [1..n -> SortPriorities],
            c \in [1..n -> SortCoords] :
             bookings = [k \in 1..n |-> Job(k, p[k], 60, c[k])]
    /\ \E s \in StartLocations :
         call = [fn |-> "sortByLocation", startLocation |-> s]
    /\ machine = [availability |-> [workingHoursStart |-> 0, workingHoursEnd |-> 0],
                  location |-> [coordinates |-> NoCoords]]
    /\ pc = "call"
    /\ sortedBookings = <<>>
    /\ loopIndex = 1
    /\ currentTime = 0
    /\ previousLocation = NoCoords
    /\ slotOrder = 1
    /\ scheduledSlots = <<>>
    /\ returned = <<>>
    /\ db = <<>>
    /\ runs = <<>>
    /\ tier = 0
    /\ sorted = <<>>
    /\ remaining = <<>>
    /\ currentLocation = NoCoords
    /\ result = <<>>

\* if (bookings.length <= 1) return bookings;
ReturnShort ==
    /\ pc = "call"
    /\ Len(bookings) <= 1
    /\ result' = bookings
    /\ pc' = "done"
    /\ UNCHANGED <<bookings, machine, sortedBookings, loopIndex, currentTime,
                   previousLocation, slotOrder, scheduledSlots, returned,
                   db, runs, sortVars, call>>

\* sorted = [], remaining = [...bookings], currentLocation = startLocation || null
EnterLoop ==
    /\ pc = "call"
    /\ Len(bookings) > 1
    /\ sorted' = <<>>
    /\ remaining' = bookings
    /\ currentLocation' = call.startLocation
    /\ pc' = "sort"
    /\ UNCHANGED <<bookings, machine, sortedBookings, loopIndex, currentTime,
                   previousLocation, slotOrder, scheduledSlots, returned,
                   db, runs, tier, callVars>>

\* one iteration of while (remaining.length > 0)
WhileIteration ==
    /\ pc = "sort"
    /\ Len(remaining) > 0
    /\ LET scan == NearestScan(remaining, currentLocation, 1, 1, Infinity)
           nearestBooking ==
               [remaining[scan.nearestIndex] EXCEPT
                   !._calculatedDistance =
                       IF scan.nearestDistance = Infinity
                       THEN 0 ELSE scan.nearestDistance]
           coords == nearestBooking.fieldLocation.coordinates
       IN /\ remaining' = RemoveAt(remaining, scan.nearestIndex)
          /\ sorted' = Append(sorted, nearestBooking)
          /\ currentLocation' = IF coords # NoCoords THEN coords
                                ELSE currentLocation
          /\ bookings' = [bookings EXCEPT ![nearestBooking._id] = nearestBooking]
    /\ UNCHANGED <<machine, pc, sortedBookings, loopIndex, currentTime,
                   previousLocation, slotOrder, scheduledSlots, returned,
                   tier, db, runs, callVars>>

\* return sorted;
ReturnSorted ==
    /\ pc = "sort"
    /\ Len(remaining) = 0
    /\ result' = sorted
    /\ pc' = "done"
    /\ UNCHANGED <<bookings, machine, sortedBookings, loopIndex, currentTime,
                   previousLocation, slotOrder, scheduledSlots, returned,
                   db, runs, sortVars, call>>

NextSort == ReturnShort \/ EnterLoop \/ WhileIteration \/ ReturnSorted

SpecSort == InitSort /\ [][NextSort]_vars

(***************************************************************************)
(* The booking service: machines, bookings, booking controller             *)
(***************************************************************************)
MaxBookings == 2

\* a request without machineId
NoMachine == 0

Dates == {1}

\* The machine documents.  Machine 1 works 08:00-10:00 from home P0,
\* machine 2 works 09:00-12:00 from home P2.
Machines ==
    (1 :> [_id |-> 1,
           availability |-> [isAvailable |-> TRUE,
                             workingHoursStart |-> 8,
                             workingHoursEnd |-> 10,
                             timePerAcre |-> 45,
                             availableDays |-> {1, 2, 3, 4, 5, 6}],
           pricing |-> [minimumAcres |-> 1],
           location |-> [coordinates |-> P0],
           status |-> "active"]) @@
    (2 :> [_id |-> 2,
           availability |-> [isAvailable |-> TRUE,
                             workingHoursStart |-> 9,
                             workingHoursEnd |-> 12,
                             timePerAcre |-> 60,
                             availableDays |-> {1, 2, 3, 4, 5, 6}],
           pricing |-> [minimumAcres |-> 1],
           location |-> [coordinates |-> P2],
           status |-> "active"])

MachineIds == DOMAIN Machines

\* request bodies of createBooking
RequestAcres == {1, 2}

RequestPriorities == {0, 3}

RequestCoords == {P1}

\* machineSchema.methods.calculateTimeRequired (whole acres)
calculateTimeRequired(machineDoc, acres) == acres * machineDoc.availability.timePerAcre

\* machineSchema.methods.isAvailableOnDay; the day of the week of date d is d % 7
isAvailableOnDay(machineDoc, date) ==
    /\ (date % 7) \in machineDoc.availability.availableDays
    /\ machineDoc.availability.isAvailable
    /\ machineDoc.status = "active"

\* Booking.create(...) with the schema defaults
NewBooking(id, machineId, date, coords, acres, priority, estimatedDuration) ==
    [_id |-> id,
     machine |-> machineId,
     date |-> date,
     fieldLocation |-> [coordinates |-> coords],
     acres |-> acres,
     priority |-> OrDefault(priority, 1),
     estimatedDuration |-> estimatedDuration,
     status |-> "pending",
     timeSlots |-> [startTime |-> NullTime, endTime |-> NullTime, slotOrder |-> 0],
     schedulingInfo |-> [autoScheduled |-> FALSE, distanceFromPrevious |-> 0],
     cancellationReason |-> ""]

Ids(d) == 1..Len(d)

\* Booking.find({status: 'pending', 'timeSlots.startTime': null, date, machine?})
PendingQuery(d, date, machineId) ==
    SelectSeq(d, LAMBDA b :
        /\ b.status = "pending"
        /\ b.timeSlots.startTime = NullTime
        /\ b.date = date
        /\ (machineId # NoMachine => b.machine = machineId))

\* The documents a query returns are fresh objects: no _calculatedDistance.
AsJobs(docs) ==
    [k \in 1..Len(docs) |-> docs[k] @@ [_calculatedDistance |-> Absent]]

\* Object.keys(bookingsByMachine): machine ids in order of first appearance
RECURSIVE MachineKeys(_, _, _)
MachineKeys(pendingBookings, k, keys) ==
    IF k > Len(pendingBookings)
    THEN keys
    ELSE MachineKeys(pendingBookings, k + 1,
             IF \E j \in 1..Len(keys) : keys[j] = pendingBookings[k].machine
             THEN keys
             ELSE Append(keys, pendingBookings[k].machine))

\* Variant of BookingsOfMachine: every group holds all pending bookings.
BookingsOfMachineUngrouped(pendingBookings, machineId) ==
    pendingBookings

\* bookingsByMachine[machineIdStr].bookings
BookingsOfMachine(pendingBookings, machineId) ==
    SelectSeq(pendingBookings, LAMBDA b : b.machine = machineId)

\* The slots of one run, machine after machine, in the order they are saved.
RECURSIVE SlotsOfRun(_, _, _)
SlotsOfRun(pendingBookings, keys, k) ==
    IF k > Len(keys)
    THEN <<>>
    ELSE scheduleJobs(AsJobs(BookingsOfMachine(pendingBookings, keys[k])),
                      Machines[keys[k]])
         \o SlotsOfRun(pendingBookings, keys, k + 1)

\* Variant of PersistSlot: the slot is saved but the status is left as it was.
PersistSlotKeepsStatus(d, slot) ==
    IF slot.bookingId \in Ids(d)
    THEN [d EXCEPT ![slot.bookingId] =
            [@ EXCEPT !.timeSlots = [startTime |-> slot.startTime,
                                     endTime |-> slot.endTime,
                                     slotOrder |-> slot.order],
                      !.schedulingInfo = [autoScheduled |-> TRUE,
                                          distanceFromPrevious |->
                                              slot.distanceFromPrevious]]]
    ELSE d

\* findById(slot.bookingId), the three assignments, booking.save()
PersistSlot(d, slot) ==
    IF slot.bookingId \in Ids(d)
    THEN [d EXCEPT ![slot.bookingId] =
            [@ EXCEPT !.timeSlots = [startTime |-> slot.startTime,
                                     endTime |-> slot.endTime,
                                     slotOrder |-> slot.order],
                      !.schedulingInfo = [autoScheduled |-> TRUE,
                                          distanceFromPrevious |->
                                              slot.distanceFromPrevious],
                      !.status = "confirmed"]]
    ELSE d

RECURSIVE PersistSlots(_, _, _)
PersistSlots(d, slots, k) ==
    IF k > Len(slots)
    THEN d
    ELSE PersistSlots(PersistSlot(d, slots[k]), slots, k + 1)

\* The collection after one whole scheduleBookings request.
scheduleBookingsDb(d, date, machineId) ==
    LET pendingBookings == PendingQuery(d, date, machineId)
    IN IF Len(pendingBookings) = 0
       THEN d
       ELSE PersistSlots(d, SlotsOfRun(pendingBookings,
                                       MachineKeys(pendingBookings, 1, <<>>), 1), 1)

(***************************************************************************)
(* Requests handled one at a time                                          *)
(***************************************************************************)
Init ==
    /\ db = <<>>
    /\ runs = <<>>
    /\ bookings = <<>>
    /\ machine = Machines[1]
    /\ pc = "idle"
    /\ sortedBookings = <<>>
    /\ loopIndex = 1
    /\ currentTime = 0
    /\ previousLocation = NoCoords
    /\ slotOrder = 1
    /\ scheduledSlots = <<>>
    /\ returned = <<>>
    /\ tier = 0
    /\ sorted = <<>>
    /\ remaining = <<>>
    /\ currentLocation = NoCoords
    /\ call = [fn |-> "none"]
    /\ result = <<>>

createBooking(machineId, date, coords, acres, priority) ==
    /\ Len(db) < MaxBookings
    /\ machineId \in MachineIds
    /\ LET machineDoc == Machines[machineId]
       IN /\ machineDoc.availability.isAvailable
          /\ machineDoc.status = "active"
          /\ isAvailableOnDay(machineDoc, date)
          /\ ~(acres < machineDoc.pricing.minimumAcres)
          /\ db' = Append(db, NewBooking(Len(db) + 1, machineId, date, coords,
                              acres, priority,
                              calculateTimeRequired(machineDoc, acres)))
    /\ UNCHANGED <<jobVars, runs, sortVars, callVars>>

cancelBooking(id) ==
    /\ id \in Ids(db)
    /\ db[id].status # "completed"
    /\ db[id].status # "cancelled"
    /\ db' = [db EXCEPT ![id].status = "cancelled",
                        ![id].cancellationReason = "Cancelled by user"]
    /\ UNCHANGED <<jobVars, runs, sortVars, callVars>>

confirmBooking(id) ==
    /\ id \in Ids(db)
    /\ db[id].status = "pending"
    /\ db' = [db EXCEPT ![id].status = "confirmed"]
    /\ UNCHANGED <<jobVars, runs, sortVars, callVars>>

\* Variant of completeBooking: the status of the booking is not looked at.
completeBookingAnyStatus(id) ==
    /\ id \in Ids(db)
    /\ db' = [db EXCEPT ![id].status = "completed"]
    /\ UNCHANGED <<jobVars, runs, sortVars, callVars>>

completeBooking(id) ==
    /\ id \in Ids(db)
    /\ db[id].status \in {"confirmed", "in_progress"}
    /\ db' = [db EXCEPT ![id].status = "completed"]
    /\ UNCHANGED <<jobVars, runs, sortVars, callVars>>

scheduleBookings(date, machineId) ==
    /\ db' = scheduleBookingsDb(db, date, machineId)
    /\ UNCHANGED <<jobVars, runs, sortVars, callVars>>

Next ==
    \/ \E m \in MachineIds, d \in Dates, c \in RequestCoords,
          a \in RequestAcres, p \in RequestPriorities :
            createBooking(m, d, c, a, p)
    \/ \E id \in 1..MaxBookings : cancelBooking(id)
    \/ \E id \in 1..MaxBookings : confirmBooking(id)
    \/ \E id \in 1..MaxBookings : completeBooking(id)
    \/ \E d \in Dates, m \in MachineIds \cup {NoMachine} : scheduleBookings(d, m)

Spec == Init /\ [][Next]_vars

(***************************************************************************)
(* Concurrent scheduleBookings requests                                    *)
(*                                                                         *)
(* A request runs until its next await: the find of the pending bookings   *)
(* (followed by the synchronous grouping and scheduleJobs calls, which     *)
(* only use the documents read), then for each slot a findById and a save. *)
(***************************************************************************)
Procs == {1, 2}

\* booking.save() sends the paths whose value differs from the loaded document
SaveSlot(d, doc, slot) ==
    LET timeSlots == [startTime |-> slot.startTime,
                      endTime |-> slot.endTime,
                      slotOrder |-> slot.order]
        schedulingInfo == [autoScheduled |-> TRUE,
                           distanceFromPrevious |-> slot.distanceFromPrevious]
    IN [d EXCEPT ![doc._id] =
          [@ EXCEPT !.timeSlots = IF doc.timeSlots # timeSlots
                                  THEN timeSlots ELSE @,
                    !.schedulingInfo = IF doc.schedulingInfo # schedulingInfo
                                       THEN schedulingInfo ELSE @,
                    !.status = IF doc.status # "confirmed"
                               THEN "confirmed" ELSE @]]

\* the collections that createBooking requests alone produce
RECURSIVE CreatedCollections(_)
CreatedCollections(n) ==
    IF n = 0
    THEN {<<>>}
    ELSE { Append(d, NewBooking(n, m, date, c, 1, p,
                                calculateTimeRequired(Machines[m], 1))) :
             d \in CreatedCollections(n - 1), m \in MachineIds, date \in Dates,
             c \in RequestCoords, p \in RequestPriorities }

InitConc ==
    /\ \E n \in 1..MaxBookings : db \in CreatedCollections(n)
    /\ \E date \in Dates, m \in MachineIds \cup {NoMachine} :
          runs = [p \in Procs |->
                    [pc |-> "find", date |-> date, machineId |-> m,
                     queue |-> <<>>, doc |-> <<>>]]
    /\ bookings = <<>>
    /\ machine = Machines[1]
    /\ pc = "idle"
    /\ sortedBookings = <<>>
    /\ loopIndex = 1
    /\ currentTime = 0
    /\ previousLocation = NoCoords
    /\ slotOrder = 1
    /\ scheduledSlots = <<>>
    /\ returned = <<>>
    /\ tier = 0
    /\ sorted = <<>>
    /\ remaining = <<>>
    /\ currentLocation = NoCoords
    /\ call = [fn |-> "none"]
    /\ result = <<>>

\* await Booking.find(query), grouping, scheduleJobs
RunFind(p) ==
    /\ runs[p].pc = "find"
    /\ LET pendingBookings == PendingQuery(db, runs[p].date, runs[p].machineId)
           slots == SlotsOfRun(pendingBookings,
                               MachineKeys(pendingBookings, 1, <<>>), 1)
       IN runs' = [runs EXCEPT ![p].queue = slots,
                               ![p].pc = IF Len(slots) = 0 THEN "done"
                                         ELSE "findById"]
    /\ UNCHANGED <<jobVars, db, sortVars, callVars>>

\* await Booking.findById(slot.bookingId)
RunFindById(p) ==
    /\ runs[p].pc = "findById"
    /\ LET slot == Head(runs[p].queue)
       IN runs' = [runs EXCEPT ![p].doc = db[slot.bookingId],
                               ![p].pc = "save"]
    /\ UNCHANGED <<jobVars, db, sortVars, callVars>>

\* the assignments and await booking.save()
RunSave(p) ==
    /\ runs[p].pc = "save"
    /\ db' = SaveSlot(db, runs[p].doc, Head(runs[p].queue))
    /\ runs' = [runs EXCEPT ![p].queue = Tail(@),
                            ![p].doc = <<>>,
                            ![p].pc = IF Len(runs[p].queue) = 1 THEN "done"
                                      ELSE "findById"]
    /\ UNCHANGED <<jobVars, sortVars, callVars>>

NextConc ==
    \E p \in Procs : RunFind(p) \/ RunFindById(p) \/ RunSave(p)

SpecConc == InitConc /\ [][NextConc]_vars

(***************************************************************************)
(* A cancelBooking request beside a scheduleBookings request               *)
(*                                                                         *)
(* runs[1] is the scheduleBookings request, runs[2] the cancelBooking      *)
(* request: a findById, the status checks, and the save of booking.cancel. *)
(***************************************************************************)
InitCancel ==
    /\ \E n \in 1..MaxBookings : db \in CreatedCollections(n)
    /\ \E date \in Dates, m \in MachineIds \cup {NoMachine}, id \in 1..MaxBookings :
          runs = <<[pc |-> "find", date |-> date, machineId |-> m,
                    queue |-> <<>>, doc |-> <<>>],
                   [pc |-> "cancelFindById", id |-> id, doc |-> <<>>,
                    response |-> 0]>>
    /\ bookings = <<>>
    /\ machine = Machines[1]
    /\ pc = "idle"
    /\ sortedBookings = <<>>
    /\ loopIndex = 1
    /\ currentTime = 0
    /\ previousLocation = NoCoords
    /\ slotOrder = 1
    /\ scheduledSlots = <<>>
    /\ returned = <<>>
    /\ tier = 0
    /\ sorted = <<>>
    /\ remaining = <<>>
    /\ currentLocation = NoCoords
    /\ call = [fn |-> "none"]
    /\ result = <<>>

\* await Booking.findById(req.params.id) and the checks that follow it
CancelFindById ==
    /\ runs[2].pc = "cancelFindById"
    /\ runs' = [runs EXCEPT ![2] =
          IF runs[2].id \notin Ids(db)
          THEN [@ EXCEPT !.pc = "done", !.response = 404]
          ELSE IF db[runs[2].id].status \in {"completed", "cancelled"}
          THEN [@ EXCEPT !.pc = "done", !.response = 400]
          ELSE [@ EXCEPT !.pc = "cancelSave", !.doc = db[runs[2].id]]]
    /\ UNCHANGED <<jobVars, db, sortVars, callVars>>

\* await booking.cancel(reason || 'Cancelled by user'): the save sends the
\* two paths the method assigned
CancelSave ==
    /\ runs[2].pc = "cancelSave"
    /\ db' = [db EXCEPT ![runs[2].id] =
                [@ EXCEPT !.status = "cancelled",
                          !.cancellationReason = "Cancelled by user"]]
    /\ runs' = [runs EXCEPT ![2] = [@ EXCEPT !.pc = "done", !.doc = <<>>,
                                              !.response = 200]]
    /\ UNCHANGED <<jobVars, sortVars, callVars>>

NextCancel ==
    RunFind(1) \/ RunFindById(1) \/ RunSave(1) \/ CancelFindById \/ CancelSave

SpecCancel == InitCancel /\ [][NextCancel]_vars

(***************************************************************************)
(* The in-memory booking controller of demo mode                           *)
(*                                                                         *)
(* db is the bookings array of mockData; result is the HTTP status of the  *)
(* last response.                                                          *)
(***************************************************************************)
MaxMockCreated == 1

\* mockData.machines (the first two)
MockMachines ==
    (1 :> [_id |-> 1,
           availability |-> [isAvailable |-> TRUE],
           dailyCapacityAcres |-> 25,
           status |-> "active"]) @@
    (2 :> [_id |-> 2,
           availability |-> [isAvailable |-> TRUE],
           dailyCapacityAcres |-> 15,
           status |-> "active"])

MockBooking(id, machineId, acres, priority, estimatedDuration, status) ==
    [_id |-> id,
     machine |-> machineId,
     acres |-> acres,
     priority |-> priority,
     estimatedDuration |-> estimatedDuration,
     status |-> status,
     cancellationReason |-> ""]

\* mockData.bookings
SampleBookings ==
    << MockBooking(1, 1, 10, 2, 240, "confirmed"),
       MockBooking(2, 2, 5, 1, 180, "pending") >>

validStatuses == {"pending", "confirmed", "in-progress", "completed", "cancelled"}

\* request bodies; the reason "" stands for a body without a reason
MockRequestStatuses == validStatuses \cup {"in_progress"}

MockRequestReasons == {"", "rain"}

MockRequestAcres == {5}

MockRequestPriorities == {0}

InitMock ==
    /\ db = SampleBookings
    /\ result = 0
    /\ call = [fn |-> "none"]
    /\ runs = <<>>
    /\ bookings = <<>>
    /\ machine = Machines[1]
    /\ pc = "idle"
    /\ sortedBookings = <<>>
    /\ loopIndex = 1
    /\ currentTime = 0
    /\ previousLocation = NoCoords
    /\ slotOrder = 1
    /\ scheduledSlots = <<>>
    /\ returned = <<>>
    /\ tier = 0
    /\ sorted = <<>>
    /\ remaining = <<>>
    /\ currentLocation = NoCoords

\* POST /bookings in demo mode (the farmer of the request exists)
mockCreateBooking(machineId, acres, priority) ==
    /\ Len(db) - Len(SampleBookings) < MaxMockCreated
    /\ IF machineId \notin DOMAIN MockMachines
       THEN /\ result' = 404
            /\ UNCHANGED db
       ELSE LET machineDoc == MockMachines[machineId]
                capacity == OrDefault(machineDoc.dailyCapacityAcres, 10)
                \* Math.ceil(acres / capacity * 60)
                estimatedDuration == (acres * 60 + capacity - 1) \div capacity
            IN IF ~machineDoc.availability.isAvailable
                  \/ machineDoc.status # "active"
               THEN /\ result' = 400
                    /\ UNCHANGED db
               ELSE /\ db' = Append(db, MockBooking(Len(db) + 1, machineId, acres,
                                                    OrDefault(priority, 1),
                                                    estimatedDuration, "pending"))
                    /\ result' = 201
    /\ UNCHANGED <<jobVars, runs, sortVars, call>>

\* PATCH /bookings/:id/status in demo mode
updateBookingStatus(id, status, cancellationReason) ==
    /\ IF id \notin Ids(db)
       THEN /\ result' = 404
            /\ UNCHANGED db
       ELSE IF status \notin validStatuses
       THEN /\ result' = 400
            /\ UNCHANGED db
       ELSE /\ db' = [db EXCEPT
                        ![id].status = status,
                        ![id].cancellationReason =
                            IF status = "cancelled" /\ cancellationReason # ""
                            THEN cancellationReason ELSE @]
            /\ result' = 200
    /\ UNCHANGED <<jobVars, runs, sortVars, call>>

\* DELETE /bookings/:id in demo mode
mockCancelBooking(id, reason) ==
    /\ IF id \notin Ids(db)
       THEN /\ result' = 404
            /\ UNCHANGED db
       ELSE /\ db' = [db EXCEPT
                        ![id].status = "cancelled",
                        ![id].cancellationReason =
                            IF reason = "" THEN "Cancelled by user" ELSE reason]
            /\ result' = 200
    /\ UNCHANGED <<jobVars, runs, sortVars, call>>

MockIds == 1..(Len(SampleBookings) + MaxMockCreated + 1)

NextMock ==
    \/ \E m \in DOMAIN MockMachines \cup {NoMachine},
          a \in MockRequestAcres, p \in MockRequestPriorities :
            mockCreateBooking(m, a, p)
    \/ \E id \in MockIds, st \in MockRequestStatuses, r \in MockRequestReasons :
            updateBookingStatus(id, st, r)
    \/ \E id \in MockIds, r \in MockRequestReasons : mockCancelBooking(id, r)

SpecMock == InitMock /\ [][NextMock]_vars

(***************************************************************************)
(* Calls of the query functions: calculateUtilization, getAvailableSlots,  *)
(* calculateDistance.  call holds the function, its arguments and how      *)
(* often it has been called with them; result is the last returned value.  *)
(***************************************************************************)
MaxUtilBookings == 2

MaxSlots == 2

\* an availability query is repeated with the same arguments
QueriesInARow == 2

UtilDurations == {0, 120, 121}

UtilAcres == {0, 1, 3}

UtilStartHours == {0, 9, 13}

UtilEndHours == {0, 9, 13}

\* dailyCapacityAcres; 0 stands for a profile without the field
UtilCapacities == {0, 2}

UtilMachines ==
    { [availability |-> [workingHoursStart |-> s, workingHoursEnd |-> e],
       dailyCapacityAcres |-> c] :
        s \in UtilStartHours, e \in UtilEndHours, c \in UtilCapacities }

\* start times and lengths of the slots of existing bookings; a booking
\* without a slot has the start time null
SlotStarts == {540, 570, 600, 630}

SlotLengths == {30, 60}

SlotTimes ==
    { [startTime |-> formatTime(t), endTime |-> formatTime(t + l)] :
        t \in SlotStarts, l \in SlotLengths }
    \cup {[startTime |-> NullTime, endTime |-> NullTime]}

SlotMachines ==
    { [availability |-> [workingHoursStart |-> s, workingHoursEnd |-> e]] :
        s \in {0, 9}, e \in {0, 11} }

RequiredDurations == {30, 45, 60}

\* 0 stands for a latitude or longitude that is 0 or not there
DistanceCoords == Points \cup {NoCoords, Coord(0, 7720), Coord(2860, 0)}

InitCalls ==
    /\ \/ \E n \in 0..MaxUtilBookings :
            \E d \in [1..n -> UtilDurations], a \in [1..n -> UtilAcres],
               m \in UtilMachines :
                call = [fn |-> "calculateUtilization",
                        bookings |-> [k \in 1..n |->
                                        [estimatedDuration |-> d[k], acres |-> a[k]]],
                        machine |-> m,
                        calls |-> 0]
       \/ \E n \in 0..MaxSlots :
            \E t \in [1..n -> SlotTimes], m \in SlotMachines,
               r \in RequiredDurations :
                call = [fn |-> "getAvailableSlots",
                        existingBookings |-> [k \in 1..n |->
                                                [_id |-> k, timeSlots |-> t[k]]],
                        machine |-> m,
                        requiredDuration |-> r,
                        calls |-> 0]
       \/ \E c1 \in DistanceCoords, c2 \in DistanceCoords :
                call = [fn |-> "calculateDistance",
                        coord1 |-> c1,
                        coord2 |-> c2,
                        calls |-> 0]
    /\ result = <<>>
    /\ db = <<>>
    /\ runs = <<>>
    /\ bookings = <<>>
    /\ machine = Machines[1]
    /\ pc = "idle"
    /\ sortedBookings = <<>>
    /\ loopIndex = 1
    /\ currentTime = 0
    /\ previousLocation = NoCoords
    /\ slotOrder = 1
    /\ scheduledSlots = <<>>
    /\ returned = <<>>
    /\ tier = 0
    /\ sorted = <<>>
    /\ remaining = <<>>
    /\ currentLocation = NoCoords

CallCalculateUtilization ==
    /\ call.fn = "calculateUtilization"
    /\ call.calls = 0
    /\ result' = calculateUtilization(call.bookings, call.machine)
    /\ call' = [call EXCEPT !.calls = 1]
    /\ UNCHANGED <<jobVars, db, runs, sortVars>>

CallGetAvailableSlots ==
    /\ call.fn = "getAvailableSlots"
    /\ call.calls < QueriesInARow
    /\ result' = getAvailableSlots(call.existingBookings, call.machine,
                                   call.requiredDuration)
    /\ call' = [call EXCEPT !.calls = @ + 1,
                            !.existingBookings = existingBookingsAfter(@)]
    /\ UNCHANGED <<jobVars, db, runs, sortVars>>

CallCalculateDistance ==
    /\ call.fn = "calculateDistance"
    /\ call.calls = 0
    /\ result' = calculateDistance(call.coord1, call.coord2)
    /\ call' = [call EXCEPT !.calls = 1]
    /\ UNCHANGED <<jobVars, db, runs, sortVars>>

NextCalls ==
    CallCalculateUtilization \/ CallGetAvailableSlots \/ CallCalculateDistance

SpecCalls == InitCalls /\ [][NextCalls]_vars

(***************************************************************************)
(* Properties of scheduleJobs                                              *)
(***************************************************************************)
SlotStart(slot) == parseTime(slot.startTime)

SlotEnd(slot) == parseTime(slot.endTime)

Range(seq) == {seq[k] : k \in 1..Len(seq)}

ReturnedIds == {slot.bookingId : slot \in Range(returned)}

\* C1: no two returned slots overlap: for orders i < j, end_i <= start_j,
\* and start times strictly increase with order.
C1_NoOverlapInOutput ==
    pc = "done" =>
        \A a, b \in Range(returned) :
            a.order < b.order =>
                /\ SlotEnd(a) <= SlotStart(b)
                /\ SlotStart(a) < SlotStart(b)

C1_Witness ==
    /\ pc = "done"
    /\ Len(returned) >= 3

\* C2: every returned slot lies inside the window the asset is configured
\* with: start >= workingHoursStart * 60 and end <= workingHoursEnd * 60,
\* for start and end hours in 0..23.
C2_SlotsInsideConfiguredWindow ==
    pc = "done" =>
        \A slot \in Range(returned) :
            /\ SlotStart(slot) >= machine.availability.workingHoursStart * 60
            /\ SlotEnd(slot) <= machine.availability.workingHoursEnd * 60

\* C4: every accepted job of a higher priority has a smaller order and an
\* earlier start than every accepted job of a lower priority.
C4_TiersNeverInterleaved ==
    pc = "done" =>
        \A a, b \in Range(returned) :
            bookings[a.bookingId].priority > bookings[b.bookingId].priority =>
                /\ a.order < b.order
                /\ SlotStart(a) < SlotStart(b)

\* an urgent job far from home and a normal job near home are both accepted,
\* with a high job between them
C4_Witness ==
    /\ pc = "done"
    /\ machine.location.coordinates = P0
    /\ \E u, h, n \in Range(returned) :
        /\ bookings[u.bookingId].priority = 3
        /\ bookings[h.bookingId].priority = 2
        /\ bookings[n.bookingId].priority = 1
        /\ bookings[u.bookingId].fieldLocation.coordinates = P3
        /\ bookings[n.bookingId].fieldLocation.coordinates = P1

\* The end time the loop computes for the candidate at loopIndex.
CandidateEnd ==
    LET booking == sortedBookings[loopIndex]
        coords == booking.fieldLocation.coordinates
        distance == IF previousLocation # NoCoords /\ coords # NoCoords
                    THEN calculateDistance(previousLocation, coords) ELSE 0
    IN currentTime
       + (IF slotOrder > 1 THEN Max(15, calculateTravelTime(distance)) ELSE 0)
       + booking.estimatedDuration

\* C5: an iteration whose candidate's computed end exceeds the window end
\* leaves clock, last-accepted location, order counter and slot list
\* unchanged; a candidate that fits against those values is accepted.
C5_RejectLeavesLoopUnchanged ==
    [][(pc = "assign" /\ loopIndex <= Len(sortedBookings)) =>
          IF CandidateEnd > workingHoursEnd(machine)
          THEN /\ currentTime' = currentTime
               /\ previousLocation' = previousLocation
               /\ slotOrder' = slotOrder
               /\ scheduledSlots' = scheduledSlots
          ELSE /\ Len(scheduledSlots') = Len(scheduledSlots) + 1
               /\ scheduledSlots'[Len(scheduledSlots')].bookingId
                      = sortedBookings[loopIndex]._id
               /\ SlotEnd(scheduledSlots'[Len(scheduledSlots')]) = CandidateEnd]_vars

\* a job was accepted, a later one rejected, and a still later one accepted
C5_Witness ==
    /\ pc = "done"
    /\ \E i, j, k \in 1..Len(sortedBookings) :
        /\ i < j /\ j < k
        /\ sortedBookings[i]._id \in ReturnedIds
        /\ sortedBookings[j]._id \notin ReturnedIds
        /\ sortedBookings[k]._id \in ReturnedIds

\* C6: between consecutive accepted slots the gap is
\* max(15, travelTime(distanceFromPrevious)), hence at least 15 minutes;
\* the first accepted slot starts at the initial clock, without a buffer.
C6_BufferBetweenSlots ==
    pc = "done" =>
        /\ \A k \in 1..(Len(returned) - 1) :
            /\ SlotStart(returned[k + 1]) - SlotEnd(returned[k])
                   = Max(15, calculateTravelTime(returned[k + 1].distanceFromPrevious))
            /\ SlotStart(returned[k + 1]) - SlotEnd(returned[k]) >= 15
        /\ Len(returned) > 0 =>
               SlotStart(returned[1]) = workingHoursStart(machine)

\* the first candidate was rejected, then two jobs at the same place were
\* accepted, so the travel time between them is 0
C6_Witness ==
    /\ pc = "done"
    /\ Len(returned) >= 2
    /\ returned[2].distanceFromPrevious = 0
    /\ sortedBookings[1]._id \notin ReturnedIds
    /\ bookings[returned[1].bookingId].fieldLocation.coordinates # NoCoords

\* C10: scheduleJobs leaves the input array and every job record in it
\* unchanged.
C10_InputNeverMutated ==
    [][bookings' = bookings]_vars

\* C11: a second call with the same job objects and the same asset profile,
\* made after the first call returned, yields the slot list the first call
\* returned.
C11_SecondCallSameSlots ==
    pc = "done" => scheduleJobs(bookings, machine) = returned

\* the first call reordered two jobs of one priority, wrote a distance on
\* both, and accepted both
C11_Witness ==
    /\ pc = "done"
    /\ Len(returned) >= 2
    /\ \E i, j \in 1..Len(bookings) :
        /\ i < j
        /\ bookings[i].priority = bookings[j].priority
        /\ bookings[i]._calculatedDistance > 0
        /\ bookings[j]._calculatedDistance > 0
        /\ \E a, b \in Range(returned) :
            /\ a.bookingId = j /\ b.bookingId = i /\ a.order < b.order

SortedIds == {sortedBookings[k]._id : k \in 1..Len(sortedBookings)}

FrameIds == {sorted[k]._id : k \in 1..Len(sorted)}
                \cup {remaining[k]._id : k \in 1..Len(remaining)}

\* C12: every call of scheduleJobs returns; each nearest-neighbour iteration
\* moves exactly one job from the remaining jobs to the sequence, the
\* assignment loop visits every sequenced job once, one per iteration, and
\* returns after the last one, and an empty or missing job list returns an
\* empty slot list.
C12_AlwaysTerminates ==
    /\ <>(pc = "done")
    /\ [][SortIteration =>
            /\ Len(remaining') = Len(remaining) - 1
            /\ Len(sorted') = Len(sorted) + 1
            /\ FrameIds' = FrameIds]_vars
    /\ [][pc = "assign" /\ pc' = "assign" => loopIndex' = loopIndex + 1]_vars
    /\ [](pc = "done" =>
            IF NoJobs(bookings)
            THEN returned = <<>>
            ELSE /\ loopIndex = Len(sortedBookings) + 1
                 /\ Cardinality(SortedIds) = Len(sortedBookings)
                 /\ SortedIds \subseteq 1..Len(bookings))

\* a call sequenced three jobs, at least two of them by nearest neighbour in
\* one priority group, rejected one of them, and returned the slots that
\* scheduleJobs computes for this input
C12_Witness ==
    /\ pc = "done"
    /\ Len(sortedBookings) = 3
    /\ loopIndex = 4
    /\ Len(returned) = 2
    /\ \E k \in 1..3 : sortedBookings[k]._calculatedDistance > 0
    /\ sortedBookings = sortedBookingsOf(bookings, machine)
    /\ returned = scheduleJobs(bookings, machine)

\* the window the asset is configured with, in minutes
ConfiguredStart == machine.availability.workingHoursStart * 60

ConfiguredEnd == machine.availability.workingHoursEnd * 60

\* C21: the running clock is initialised to the configured window start for
\* every start hour in 0..23, the first accepted slot starts exactly there,
\* and a first candidate whose duration is at most the window length is
\* accepted.
C21_ClockStartsAtConfiguredStart ==
    /\ (pc = "assign" /\ loopIndex = 1) => currentTime = ConfiguredStart
    /\ (pc = "done" /\ Len(returned) > 0) =>
           SlotStart(returned[1]) = ConfiguredStart
    /\ (pc = "done" /\ Len(sortedBookings) > 0
           /\ sortedBookings[1].estimatedDuration
                  <= ConfiguredEnd - ConfiguredStart) =>
           /\ Len(returned) > 0
           /\ returned[1].bookingId = sortedBookings[1]._id

\* C24: every input job is in exactly one of the three tiers, and the list
\* handed to slot assignment is a permutation of the input job list.
C24_PartitionIsPermutation ==
    (pc = "assign" \/ (pc = "done" /\ ~NoJobs(bookings))) =>
        /\ \A k \in 1..Len(bookings) :
              Cardinality({t \in {3, 2, 1} :
                  \E j \in 1..Len(GroupOf(bookings, t)) :
                      GroupOf(bookings, t)[j]._id = bookings[k]._id}) = 1
        /\ Len(sortedBookings) = Len(bookings)
        /\ SortedIds = 1..Len(bookings)

\* the jobs of one priority, in the order they were sequenced
TierSequence(priority) ==
    SelectSeq(sortedBookings, LAMBDA b : OrDefault(b.priority, 1) = priority)

HasCoordinates(b) == b.fieldLocation.coordinates # NoCoords

\* C22: the location cursor is carried from one tier to the next: when a
\* tier is non-empty and its jobs have coordinates, the first job sequenced
\* in the next tier is a job of that tier nearest to the last job sequenced
\* in the tier before (urgent to high, and high to normal).
C22_CursorCarriedAcrossTiers ==
    pc = "done" =>
        \A upper \in {3, 2} :
            LET before == TierSequence(upper)
                next == TierSequence(upper - 1)
            IN (/\ Len(before) > 0
                /\ Len(next) > 0
                /\ \A b \in Range(before) \cup Range(next) : HasCoordinates(b)) =>
                   \A k \in 1..Len(next) :
                       calculateDistance(
                           before[Len(before)].fieldLocation.coordinates,
                           next[1].fieldLocation.coordinates)
                       <= calculateDistance(
                           before[Len(before)].fieldLocation.coordinates,
                           next[k].fieldLocation.coordinates)

CoordsOfSlot(slot) == bookings[slot.bookingId].fieldLocation.coordinates

\* the location the k-th returned slot is measured from: the coordinates of
\* the last job accepted before it that has coordinates, else the home
PreviousOf(k) ==
    LET withCoords == {j \in 1..(k - 1) : CoordsOfSlot(returned[j]) # NoCoords}
    IN IF withCoords = {}
       THEN machine.location.coordinates
       ELSE CoordsOfSlot(returned[
                CHOOSE j \in withCoords : \A i \in withCoords : i <= j])

C27_OrdersAreOneToK ==
    /\ [](pc = "done" =>
            \A k \in 1..Len(returned) : returned[k].order = k)
    /\ []((pc = "assign" /\ loopIndex = 1) => slotOrder = 1)
    /\ []((pc = "assign" \/ (pc = "done" /\ ~NoJobs(bookings))) =>
            slotOrder = Len(scheduledSlots) + 1)
    /\ [][(pc = "assign" /\ loopIndex <= Len(sortedBookings)) =>
            IF Len(scheduledSlots') = Len(scheduledSlots)
            THEN slotOrder' = slotOrder
            ELSE /\ slotOrder' = slotOrder + 1
                 /\ scheduledSlots'[Len(scheduledSlots')].order = slotOrder]_vars

\* the first candidate was rejected and the two after it were accepted with
\* the orders 1 and 2
C27_Witness ==
    /\ pc = "done"
    /\ Len(sortedBookings) = 3
    /\ sortedBookings[1]._id \notin ReturnedIds
    /\ Len(returned) = 2
    /\ returned[1].order = 1
    /\ returned[1].bookingId = sortedBookings[2]._id
    /\ returned[2].order = 2
    /\ returned[2].bookingId = sortedBookings[3]._id

\* the end a job would have if it were placed after the last returned slot
EndIfPlacedLast(b) ==
    LET jobDuration == OrDefault(b.estimatedDuration, 60)
    IN IF Len(returned) = 0
       THEN workingHoursStart(machine) + jobDuration
       ELSE SlotEnd(returned[Len(returned)])
            + Max(15, calculateTravelTime(
                         calculateDistance(PreviousOf(Len(returned) + 1),
                                           b.fieldLocation.coordinates)))
            + jobDuration

\* C29: a job is dropped only if it cannot fit the working window: every
\* submitted job that is absent from the returned slots would end after the
\* window end if it were placed after the last accepted slot (or at the
\* window start when nothing was accepted).
C29_DroppedOnlyIfNoFit ==
    (pc = "done" /\ ~NoJobs(bookings)) =>
        \A k \in 1..Len(bookings) :
            bookings[k]._id \notin ReturnedIds =>
                EndIfPlacedLast(bookings[k]) > workingHoursEnd(machine)

(***************************************************************************)
(* Properties of sortByLocation                                            *)
(***************************************************************************)
\* the job the iteration just moved to the sequence, and where it stood
Picked == sorted'[Len(sorted')]

PickedIndex == CHOOSE k \in 1..Len(remaining) : remaining[k]._id = Picked._id

DistanceFromCursor(b) ==
    calculateDistance(currentLocation, b.fieldLocation.coordinates)

\* booking.priority || 1
PriorityWeight(b) == OrDefault(b.priority, 1)

ResultIds == [k \in 1..Len(result) |-> result[k]._id]

\* C23: with a defined cursor and coordinates on every job, each iteration
\* picks a remaining job at minimal distance from the cursor, the earliest
\* in input order among equally distant ones, removes it from the remaining
\* jobs and moves the cursor to it; three jobs of one priority at 5.6 km,
\* 20.0 km and 2.2 km from home come out as 2.2 km, 5.6 km, 20.0 km.
C23_NearestFirstEarliestOnTies ==
    /\ [][(/\ pc = "sort"
           /\ Len(remaining) > 0
           /\ currentLocation # NoCoords
           /\ \A b \in Range(bookings) : HasCoordinates(b)) =>
              /\ \A k \in 1..Len(remaining) :
                    /\ DistanceFromCursor(Picked) <= DistanceFromCursor(remaining[k])
                    /\ DistanceFromCursor(remaining[k]) = DistanceFromCursor(Picked)
                          => Picked._id <= remaining[k]._id
              /\ remaining' = RemoveAt(remaining, PickedIndex)
              /\ Picked._calculatedDistance = DistanceFromCursor(Picked)
              /\ currentLocation' = Picked.fieldLocation.coordinates]_vars
    /\ [](/\ pc = "done"
          /\ call.startLocation = P0
          /\ Len(bookings) = 3
          /\ bookings[1].fieldLocation.coordinates = P2
          /\ bookings[2].fieldLocation.coordinates = P3
          /\ bookings[3].fieldLocation.coordinates = P1
          => ResultIds = <<3, 1, 2>>)

\* the three jobs of the example, of one priority, sequenced from home
C23_Witness ==
    /\ pc = "done"
    /\ call.startLocation = P0
    /\ Len(bookings) = 3
    /\ bookings[1].fieldLocation.coordinates = P2
    /\ bookings[2].fieldLocation.coordinates = P3
    /\ bookings[3].fieldLocation.coordinates = P1
    /\ bookings[1].priority = bookings[2].priority
    /\ bookings[2].priority = bookings[3].priority
    /\ ResultIds = <<3, 1, 2>>
    /\ bookings[3]._calculatedDistance = 22
    /\ bookings[1]._calculatedDistance = 33
    /\ bookings[2]._calculatedDistance = 145

\* C25: a candidate without coordinates, or any candidate while the cursor
\* is undefined, is ranked by priority weight: it replaces the current pick
\* only when its weight is strictly higher, so with an undefined cursor the
\* pick is the first job of the highest weight, and with no start location
\* and no job coordinates the result is in descending weight with input
\* order kept among equal weights.
C25_PriorityFallback ==
    /\ [][(pc = "sort" /\ Len(remaining) > 0) =>
              /\ currentLocation = NoCoords =>
                    \A k \in 1..Len(remaining) :
                        /\ PriorityWeight(remaining[k]) <= PriorityWeight(Picked)
                        /\ k < PickedIndex =>
                              PriorityWeight(remaining[k]) < PriorityWeight(Picked)
              /\ \A k \in 1..Len(remaining) :
                    (k > PickedIndex /\ ~HasCoordinates(remaining[k])) =>
                        PriorityWeight(remaining[k]) <= PriorityWeight(Picked)]_vars
    /\ [](/\ pc = "done"
          /\ call.startLocation = NoCoords
          /\ \A b \in Range(bookings) : ~HasCoordinates(b)
          => /\ Len(result) = Len(bookings)
             /\ Range(ResultIds) = 1..Len(bookings)
             /\ \A i, j \in 1..Len(result) :
                   i < j =>
                     \/ PriorityWeight(result[i]) > PriorityWeight(result[j])
                     \/ /\ PriorityWeight(result[i]) = PriorityWeight(result[j])
                        /\ result[i]._id < result[j]._id)

\* without a start location and without job coordinates, three jobs of
\* weights 1 (no priority), 3, 1 come out as 3, then the two of weight 1 in
\* input order
C25_Witness ==
    /\ pc = "done"
    /\ call.startLocation = NoCoords
    /\ Len(bookings) = 3
    /\ \A b \in Range(bookings) : ~HasCoordinates(b)
    /\ bookings[1].priority = 0
    /\ bookings[2].priority = 3
    /\ bookings[3].priority = 1
    /\ ResultIds = <<2, 1, 3>>

(***************************************************************************)
(* Properties of the booking service                                       *)
(***************************************************************************)
Slotted(b) == b.timeSlots.startTime # NullTime

Overlap(a, b) ==
    /\ parseTime(a.timeSlots.startTime) < parseTime(b.timeSlots.endTime)
    /\ parseTime(b.timeSlots.startTime) < parseTime(a.timeSlots.endTime)

\* the persisted slots of the non-cancelled bookings of each machine and
\* date are pairwise disjoint
PersistedSlotsDisjoint ==
    \A i, j \in Ids(db) :
        (/\ i # j
         /\ db[i].machine = db[j].machine
         /\ db[i].date = db[j].date
         /\ db[i].status # "cancelled" /\ db[j].status # "cancelled"
         /\ Slotted(db[i]) /\ Slotted(db[j]))
        => ~Overlap(db[i], db[j])

\* C3: after any sequence of booking creations and sequential scheduling
\* runs, the persisted slots of one machine and date never overlap.
C3_PersistedSlotsNeverOverlap == PersistedSlotsDisjoint

\* C7: when two concurrent scheduling runs for the same machine and date
\* have both finished, the persisted slots do not overlap.
C7_ConcurrentRunsNoOverlap ==
    (\A p \in DOMAIN runs : runs[p].pc = "done") => PersistedSlotsDisjoint

RunArgs == Dates \X (MachineIds \cup {NoMachine})

\* the slot scheduleJobs returns for pending booking b in a run that read
\* pendingBookings, as a set (empty when b is dropped)
ReturnedSlotsFor(pendingBookings, b) ==
    { slot \in Range(scheduleJobs(
                         AsJobs(BookingsOfMachine(pendingBookings, b.machine)),
                         Machines[b.machine])) :
        slot.bookingId = b._id }

\* C8: after a scheduling run every booking with a returned slot is
\* persisted as confirmed with exactly that slot's start, end and order,
\* and every pending booking of the input without a slot is still pending
\* with a null start time.
C8_RunPersistsReturnedSlots ==
    [][\A args \in RunArgs :
          scheduleBookings(args[1], args[2]) =>
              LET pendingBookings == PendingQuery(db, args[1], args[2])
              IN \A k \in 1..Len(pendingBookings) :
                    LET b == pendingBookings[k]
                        after == db'[b._id]
                    IN /\ \A slot \in ReturnedSlotsFor(pendingBookings, b) :
                            /\ after.status = "confirmed"
                            /\ after.timeSlots.startTime = slot.startTime
                            /\ after.timeSlots.endTime = slot.endTime
                            /\ after.timeSlots.slotOrder = slot.order
                       /\ ReturnedSlotsFor(pendingBookings, b) = {} =>
                            /\ after.status = "pending"
                            /\ after.timeSlots.startTime = NullTime]_vars

\* a run confirmed the second booking and dropped the first, older one of
\* the same machine and date
C8_Witness ==
    /\ Len(db) >= 2
    /\ db[1].machine = db[2].machine
    /\ db[1].date = db[2].date
    /\ db[1].status = "pending"
    /\ ~Slotted(db[1])
    /\ db[2].status = "confirmed"
    /\ db[2].schedulingInfo.autoScheduled
    /\ Slotted(db[2])

\* C9: a scheduling run changes no booking that was not pending when it
\* started, and running the scheduler again right after a run, with no
\* booking created in between, changes nothing.
C9_RerunChangesNothing ==
    [][\A args \in RunArgs :
          scheduleBookings(args[1], args[2]) =>
              /\ \A i \in Ids(db) :
                    (db[i].status # "pending" \/ Slotted(db[i]))
                        => db'[i] = db[i]
              /\ scheduleBookingsDb(db', args[1], args[2]) = db']_vars

\* the status changes of one step, as pairs <<before, after>>
StatusChanges ==
    { <<db[i].status, db'[i].status>> :
        i \in { j \in Ids(db) : db'[j].status # db[j].status } }

\* C13 as stated: every status change follows the chain
\* pending -> confirmed -> in_progress -> completed without skipping a step,
\* or moves to cancelled; a booking becomes completed only from in_progress.
C13_ChainWithoutSkips ==
    [][\A change \in StatusChanges :
          \/ change \in {<<"pending", "confirmed">>,
                         <<"confirmed", "in_progress">>,
                         <<"in_progress", "completed">>}
          \/ change[2] = "cancelled"]_vars

\* C13, amended: every status change is pending -> confirmed,
\* confirmed -> completed, in_progress -> completed, or a move to cancelled
\* from pending, confirmed or in_progress; no handler sets in_progress.
C13_StatusChanges ==
    /\ [][\A change \in StatusChanges :
            change \in {<<"pending", "confirmed">>,
                        <<"confirmed", "completed">>,
                        <<"in_progress", "completed">>,
                        <<"pending", "cancelled">>,
                        <<"confirmed", "cancelled">>,
                        <<"in_progress", "cancelled">>}]_vars
    /\ [](\A i \in Ids(db) : db[i].status # "in_progress")

\* one booking was scheduled and completed, another one confirmed and
\* cancelled
C13_Witness ==
    \E i, j \in Ids(db) :
        /\ db[i].status = "completed"
        /\ Slotted(db[i])
        /\ db[j].status = "cancelled"

\* C14: a cancel request on a completed booking is answered with an error and
\* leaves the booking's status and cancellation reason as they were (here for
\* the in-memory controller: DELETE /:id, and PATCH /:id/status with status
\* cancelled).
C14_CompletedNeverCancelled ==
    [][\A id \in MockIds, r \in MockRequestReasons :
          (/\ id \in Ids(db)
           /\ db[id].status = "completed"
           /\ (mockCancelBooking(id, r) \/ updateBookingStatus(id, "cancelled", r)))
          => /\ result' >= 400
             /\ db'[id].status = db[id].status
             /\ db'[id].cancellationReason = db[id].cancellationReason]_vars

\* the same for the database-backed controller, whose error answers leave
\* every variable unchanged: no step changes a completed booking
CompletedIsFinal ==
    [][\A i \in Ids(db) :
          db[i].status = "completed" =>
              /\ db'[i].status = "completed"
              /\ db'[i].cancellationReason = db[i].cancellationReason]_vars

\* the collection with the bookings of every machine but machineId taken out
\* of scheduling (cancelled)
WithoutOthers(d, machineId) ==
    [k \in 1..Len(d) |->
        IF d[k].machine = machineId
        THEN d[k]
        ELSE [d[k] EXCEPT !.status = "cancelled"]]

\* C15: a scheduling run leaves each booking of machine A as a run for A
\* alone would leave it on a collection in which no other machine has a
\* booking to schedule, and a run for another machine leaves A's bookings
\* untouched.
C15_MachinesIndependent ==
    [][\A args \in RunArgs :
          scheduleBookings(args[1], args[2]) =>
              \A i \in Ids(db) :
                  LET a == db[i].machine
                  IN db'[i] =
                        IF args[2] \in {a, NoMachine}
                        THEN scheduleBookingsDb(WithoutOthers(db, a), args[1], a)[i]
                        ELSE db[i]]_vars

\* bookings of two machines were scheduled for the same date, each as the
\* first job of its own machine's window
C15_Witness ==
    \E i, j \in Ids(db) :
        /\ db[i].machine = 1 /\ db[j].machine = 2
        /\ db[i].date = db[j].date
        /\ db[i].schedulingInfo.autoScheduled /\ db[j].schedulingInfo.autoScheduled
        /\ db[i].timeSlots.startTime = formatTime(workingHoursStart(Machines[1]))
        /\ db[j].timeSlots.startTime = formatTime(workingHoursStart(Machines[2]))
        /\ db[i].status = "confirmed" /\ db[j].status = "confirmed"

\* C28: under every interleaving of a cancelBooking request and a
\* scheduleBookings run, a booking whose status is cancelled is never set to
\* confirmed, and a booking cancelled while the run was in flight is
\* cancelled when the run has finished.
C28_CancelledStaysCancelled ==
    /\ [][\A id \in Ids(db) :
             db[id].status = "cancelled" => db'[id].status = "cancelled"]_vars
    /\ []((runs[1].pc = "done" /\ runs[2].pc = "done" /\ runs[2].response = 200)
            => db[runs[2].id].status = "cancelled")

(***************************************************************************)
(* Properties of the query functions                                       *)
(***************************************************************************)
Returned(fn) == call.fn = fn /\ call.calls >= 1

\* C16: on an empty booking list calculateUtilization reports 0% time
\* utilization and 0% area utilization, for every start and end hour in
\* 0..23 and every daily capacity.
C16_EmptyListZeroPercent ==
    (Returned("calculateUtilization") /\ Len(call.bookings) = 0) =>
        /\ result.timeUtilization = Percent(0)
        /\ result.acresUtilization = Percent(0)

Above100(p) ==
    IF p = InfinityPercent THEN TRUE
    ELSE IF p = NaNPercent THEN FALSE
    ELSE p.percent > 100

\* p is `${n}%` for an integer n nearest to 100 * num / den
NearestPercent(p, num, den) ==
    /\ p \notin {NaNPercent, InfinityPercent}
    /\ IF den > 0
       THEN /\ 2 * (100 * num - p.percent * den) <= den
            /\ 2 * (p.percent * den - 100 * num) <= den
       ELSE /\ 2 * (100 * num - p.percent * den) >= den
            /\ 2 * (p.percent * den - 100 * num) >= den

UnclampedPercent(p, sum, capacity) ==
    /\ NearestPercent(p, sum, capacity)
    /\ sum > capacity =>
           /\ p.percent >= 100
           /\ p.percent > 100 <=> 200 * sum >= 201 * capacity

ExistingSlots ==
    { call.existingBookings[k].timeSlots :
        k \in { j \in 1..Len(call.existingBookings) :
                  call.existingBookings[j].timeSlots.startTime # NullTime } }

\* the existing slots do not overlap one another and lie inside the working
\* window the function computes from the machine
SlotsDisjointInWindow ==
    /\ \A i, j \in 1..Len(call.existingBookings) :
          (/\ i # j
           /\ Slotted(call.existingBookings[i])
           /\ Slotted(call.existingBookings[j]))
          => ~Overlap(call.existingBookings[i], call.existingBookings[j])
    /\ \A slot \in ExistingSlots :
          /\ workingHoursStart(call.machine) <= parseTime(slot.startTime)
          /\ parseTime(slot.endTime) <= workingHoursEnd(call.machine)

MinOf(S) == CHOOSE x \in S : \A y \in S : x <= y

\* a free gap starts at the window start or at the end of a slot
GapStarts ==
    {workingHoursStart(call.machine)}
        \cup {parseTime(slot.endTime) : slot \in ExistingSlots}

\* and ends at the next slot start, or at the window end
GapEnd(g) ==
    MinOf({workingHoursEnd(call.machine)}
              \cup { parseTime(slot.startTime) :
                       slot \in { x \in ExistingSlots : parseTime(x.startTime) >= g } })

\* one candidate [gapStart, gapStart + duration) for each gap that is long
\* enough
ExpectedCandidates ==
    { [startTime |-> formatTime(g),
       endTime |-> formatTime(g + call.requiredDuration),
       gapDuration |-> GapEnd(g) - g] :
        g \in { x \in GapStarts : GapEnd(x) - x >= call.requiredDuration } }

\* C18: for existing slots that do not overlap and lie inside the working
\* window, getAvailableSlots returns exactly one candidate
\* [gapStart, gapStart + duration) for each free gap (before the first slot,
\* between consecutive slots, after the last slot) of length >= duration,
\* and none for a shorter gap.
C18_OneCandidatePerGap ==
    (Returned("getAvailableSlots") /\ SlotsDisjointInWindow) =>
        /\ Range(result) = ExpectedCandidates
        /\ Len(result) = Cardinality(ExpectedCandidates)

\* two slots given out of order leave a gap before, a shorter gap between
\* and a gap after them: two candidates
C18_Witness ==
    /\ Returned("getAvailableSlots")
    /\ SlotsDisjointInWindow
    /\ Len(call.existingBookings) = 2
    /\ Slotted(call.existingBookings[1]) /\ Slotted(call.existingBookings[2])
    /\ parseTime(call.existingBookings[2].timeSlots.startTime)
           < parseTime(call.existingBookings[1].timeSlots.startTime)
    /\ Len(result) = 2
    /\ \E g \in GapStarts :
          GapEnd(g) - g > 0 /\ GapEnd(g) - g < call.requiredDuration

\* the slots of the existing bookings of the call, in the order given
ExistingSlotList ==
    [k \in 1..Len(WithStartTime(call.existingBookings)) |->
        WithStartTime(call.existingBookings)[k].timeSlots]

\* C30: for existing slots with start < end inside the working window,
\* overlapping and nested ones included, every candidate returned by
\* getAvailableSlots lies inside the working window and overlaps no existing
\* slot: isSlotAvailable is true for it against the same slots.
C30_CandidatesAreFree ==
    (/\ Returned("getAvailableSlots")
     /\ \A slot \in ExistingSlots :
           /\ parseTime(slot.startTime) < parseTime(slot.endTime)
           /\ workingHoursStart(call.machine) <= parseTime(slot.startTime)
           /\ parseTime(slot.endTime) <= workingHoursEnd(call.machine)) =>
        \A k \in 1..Len(result) :
            /\ workingHoursStart(call.machine) <= parseTime(result[k].startTime)
            /\ parseTime(result[k].endTime) <= workingHoursEnd(call.machine)
            /\ isSlotAvailable(ExistingSlotList, result[k].startTime,
                               result[k].endTime)

C20_SymmetricZeroOnMissing ==
    Returned("calculateDistance") =>
        /\ result = calculateDistance(call.coord2, call.coord1)
        /\ call.coord1 = call.coord2 => result = 0
        /\ (MissingLatLon(call.coord1) \/ MissingLatLon(call.coord2)) => result = 0

\* the distance from a point to a missing one, which is 0
C20_Witness ==
    /\ Returned("calculateDistance")
    /\ call.coord1 = P0
    /\ call.coord2 = NoCoords
    /\ result = 0

====
